---- MODULE Spec2Model ----
(***************************************************************************)
(* Model of src/analyze_pcb.py: PCBAnalyzer.analyze_image and the helpers  *)
(* it calls (detect_pcb_features, get_quality_check_details,               *)
(* get_certification_details, format_details).                             *)
(*                                                                         *)
(* An image is represented by the statistics the code reads from it: how   *)
(* the bytes decode, the shape of the decoded array, the per-channel mean  *)
(* and standard deviation, and the mean of the edge map.  Real numbers are *)
(* scaled integers: an edge density e stands for e / EdgeScale.            *)
(* A Python string is a sequence of tokens, so that formatting (f-strings, *)
(* join) is a real conversion and not the identity.                        *)
(***************************************************************************)
EXTENDS Integers, Sequences, FiniteSets, TLC

\* ---------------------------------------------------------------- bounds
\* Units per 1.0 of edge density (2: halves are representable).
EdgeScale == 2
\* Largest edge density drawn, in whole units (the code's top threshold is 25).
MaxEdgeDensity == 26
\* Channel means are drawn from {0, MeanStep, ..., MaxMeanLevel * MeanStep}.
MeanStep == 16
MaxMeanLevel == 2
\* analysis_option is drawn from 0 .. MaxOption.
MaxOption == 4

Edges == 0 .. (MaxEdgeDensity * EdgeScale)
Means == {l * MeanStep : l \in 0 .. MaxMeanLevel}
\* Per-channel standard deviations on both sides of the threshold of line 147.
StdVals == {60, 61}
Options == 0 .. MaxOption

\* ---------------------------------------------------------------- inputs
\* Three-channel images (RGB, YCbCr, ...): np.array(img) has shape (224,224,3).
RGBImages ==
    [decode : {"ok"}, ndim : {3}, mean : [1..3 -> Means], std : [1..3 -> StdVals],
     edge : Edges]

\* Single-channel images (L, P, 1, I, F): np.array(img) has shape (224,224).
GrayImages ==
    [decode : {"ok"}, ndim : {2}, mean : {<<m>> : m \in Means},
     std : {<<s>> : s \in StdVals}, edge : Edges]

\* Two- and four-channel images (LA, RGBA, CMYK), equal statistics per channel.
OtherImages ==
    {[decode |-> "ok", ndim |-> 3, mean |-> [i \in 1..c |-> m],
      std |-> [i \in 1..c |-> s], edge |-> e] :
        c \in {2, 4}, m \in Means, s \in StdVals, e \in {0, 10 * EdgeScale}}

\* Bytes Image.open rejects ("bad") and bytes whose header parses but whose
\* pixel data does not load ("truncated").
BrokenImages ==
    [decode : {"bad", "truncated"}, ndim : {2}, mean : {<<0>>}, std : {<<60>>},
     edge : {0}]

Images == RGBImages \cup GrayImages \cup OtherImages \cup BrokenImages

NoImage == [decode |-> "none", ndim |-> 2, mean |-> <<0>>, std |-> <<60>>, edge |-> 0]

\* ---------------------------------------------------------------- python helpers
RECURSIVE SumSeq(_)
SumSeq(s) == IF s = <<>> THEN 0 ELSE Head(s) + SumSeq(Tail(s))

SquareSeq(s) == [i \in DOMAIN s |-> s[i] * s[i]]

\* np.std(v) < t for a 1-d array v: variance < t^2, multiplied out by n^2.
np_std_below(v, t) ==
    Len(v) * SumSeq(SquareSeq(v)) - SumSeq(v) * SumSeq(v) < t * t * Len(v) * Len(v)

\* np.max(v) for a 1-d array v.
np_max(v) == CHOOSE x \in {v[i] : i \in DOMAIN v} : \A i \in DOMAIN v : v[i] <= x

\* np.mean / np.std over axis=(0, 1): a 0-d scalar for a 2-d array (which has
\* no len()), a 1-d array with one entry per channel for a 3-d array.
np_reduce_axis01(ndim, perChannel) == [sized |-> ndim > 2, v |-> perChannel]

\* str.join: the parts with sep between them.
RECURSIVE Join(_, _)
Join(sep, parts) ==
    IF parts = <<>> THEN <<>>
    ELSE IF Len(parts) = 1 THEN parts[1]
    ELSE parts[1] \o <<sep>> \o Join(sep, Tail(parts))

\* str.upper and str.capitalize on the labels the code formats.
Upper ==
    [s \in {"unknown", "single_sided", "double_sided", "multilayer", "high_frequency",
            "high_power", "flexible"} |->
        CASE s = "unknown" -> "UNKNOWN"
          [] s = "single_sided" -> "SINGLE_SIDED"
          [] s = "double_sided" -> "DOUBLE_SIDED"
          [] s = "multilayer" -> "MULTILAYER"
          [] s = "high_frequency" -> "HIGH_FREQUENCY"
          [] s = "high_power" -> "HIGH_POWER"
          [] s = "flexible" -> "FLEXIBLE"]

Capitalize ==
    [s \in {"low", "medium", "high", "very_high"} |->
        CASE s = "low" -> "Low"
          [] s = "medium" -> "Medium"
          [] s = "high" -> "High"
          [] s = "very_high" -> "Very_high"]

\* An insertion-ordered dict: a sequence of [key, value] entries.
EmptyDict == <<>>

DictKeys(d) == [i \in DOMAIN d |-> d[i].key]

KeySet(d) == {d[i].key : i \in DOMAIN d}

DictGet(d, k) == d[CHOOSE i \in DOMAIN d : d[i].key = k].value

DictSet(d, k, v) ==
    IF k \in KeySet(d)
    THEN [i \in DOMAIN d |-> IF d[i].key = k THEN [key |-> k, value |-> v] ELSE d[i]]
    ELSE Append(d, [key |-> k, value |-> v])

\* ---------------------------------------------------------------- detect_pcb_features
\* Lines 109-130 with the low-colour-variation rule (lines 125-127) replaced by
\* the density-only rule of line 130.
pcb_type_gray_by_density(mean_color, edge_density) ==
    IF Len(mean_color) = 3
    THEN IF mean_color[2] > mean_color[1] /\ mean_color[2] > mean_color[3]
         THEN IF edge_density > 20 * EdgeScale THEN "multilayer"
              ELSE IF edge_density < 10 * EdgeScale THEN "single_sided"
              ELSE "double_sided"
         ELSE IF mean_color[3] > mean_color[1] /\ mean_color[3] > mean_color[2]
         THEN "high_frequency"
         ELSE IF mean_color[1] > mean_color[2] /\ mean_color[1] > mean_color[3]
         THEN "high_power"
         ELSE IF edge_density < 10 * EdgeScale THEN "single_sided"
         ELSE "double_sided"
    ELSE IF edge_density < 10 * EdgeScale THEN "single_sided" ELSE "double_sided"

\* Lines 109-130: PCB type from colour dominance, else from edge density.
pcb_type_of(mean_color, edge_density) ==
    IF Len(mean_color) = 3
    THEN IF mean_color[2] > mean_color[1] /\ mean_color[2] > mean_color[3]
         THEN IF edge_density > 20 * EdgeScale THEN "multilayer"
              ELSE IF edge_density < 10 * EdgeScale THEN "single_sided"
              ELSE "double_sided"
         ELSE IF mean_color[3] > mean_color[1] /\ mean_color[3] > mean_color[2]
         THEN "high_frequency"
         ELSE IF mean_color[1] > mean_color[2] /\ mean_color[1] > mean_color[3]
         THEN "high_power"
         ELSE IF np_std_below(mean_color, 10) THEN "flexible"
         ELSE "unknown"
    ELSE IF edge_density < 10 * EdgeScale THEN "single_sided" ELSE "double_sided"

\* Lines 132-140 with two bands exchanged.
component_density_swapped(edge_density) ==
    IF edge_density < 10 * EdgeScale THEN "low"
    ELSE IF edge_density < 15 * EdgeScale THEN "high"
    ELSE IF edge_density < 20 * EdgeScale THEN "medium"
    ELSE "very_high"

\* Lines 132-140: component density bands.
component_density_of(edge_density) ==
    IF edge_density < 10 * EdgeScale THEN "low"
    ELSE IF edge_density < 15 * EdgeScale THEN "medium"
    ELSE IF edge_density < 20 * EdgeScale THEN "high"
    ELSE "very_high"

Max2(a, b) == IF a > b THEN a ELSE b

Min2(a, b) == IF a < b THEN a ELSE b

\* Line 143: max(1, min(8, int(edge_density / 5))).
layer_count_of(edge_density) == Max2(1, Min2(8, edge_density \div (5 * EdgeScale)))

\* Line 147: the condition of the colour-inconsistency check.  "ambiguous" is
\* the ValueError numpy raises for the truth value of an array of several
\* elements.
color_issue_test(std_color) ==
    IF Len(std_color) = 3
    THEN IF np_max(std_color) > 60 THEN "true" ELSE "false"
    ELSE IF Len(std_color) > 1 THEN "ambiguous"
    ELSE IF Len(std_color) = 1 /\ std_color[1] > 60 THEN "true"
    ELSE "false"

\* Lines 146-150 and 157: the issue list.
issues_of(std_color, edge_density) ==
    LET found ==
            (IF color_issue_test(std_color) = "true"
             THEN <<"potential color inconsistency">> ELSE <<>>)
            \o (IF edge_density > 25 * EdgeScale
                THEN <<"high complexity - careful inspection recommended">>
                ELSE <<>>)
    IN IF found # <<>> THEN found ELSE <<"none detected">>

NoFeatures ==
    [pcb_type |-> "none", component_density |-> "none", estimated_layer_count |-> 0,
     edge_density |-> 0, issues |-> <<>>]

\* An exception: its class and str(e).
NoException == [type |-> "", msg |-> ""]

exception_of(type, msg) == [type |-> type, msg |-> msg]

Raised(type, msg) == [ok |-> FALSE, exc |-> exception_of(type, msg), value |-> NoFeatures]

Returned(v) == [ok |-> TRUE, exc |-> NoException, value |-> v]

\* Lines 86-158.  The result is the feature record, or the exception raised.
detect_pcb_features(image) ==
    IF image.decode = "truncated"
    THEN Raised("OSError", "image file is truncated")
    ELSE
    LET mean_color == np_reduce_axis01(image.ndim, image.mean)
        std_color == np_reduce_axis01(image.ndim, image.std)
        edge_density == image.edge
    IN IF ~mean_color.sized
       THEN Raised("TypeError", "object of type 'numpy.float64' has no len()")
       ELSE IF color_issue_test(std_color.v) = "ambiguous"
       THEN Raised("ValueError",
                   "The truth value of an array with more than one element is ambiguous")
       ELSE Returned([pcb_type |-> pcb_type_of(mean_color.v, edge_density),
                      component_density |-> component_density_of(edge_density),
                      estimated_layer_count |-> layer_count_of(edge_density),
                      edge_density |-> edge_density,
                      issues |-> issues_of(std_color.v, edge_density)])

\* ---------------------------------------------------------------- rule engine
\* A string literal, and the f-string f"{x} (simulated)".
Lit(s) == <<s>>

Simulated(x) == <<x, " (simulated)">>

\* Lines 40-45: the quality level.
quality_result_of(features) ==
    IF features.component_density = "high" \/ features.estimated_layer_count > 4
    THEN "comprehensive"
    ELSE IF features.component_density = "medium" THEN "enhanced"
    ELSE "basic"

\* Lines 56-65 with the RoHS rule made unconditional.
predicted_certs_rohs_always(features) ==
    <<"CE", "RoHS">>
    \o (IF features.component_density \in {"medium", "high"} THEN <<"UL">> ELSE <<>>)
    \o (IF features.pcb_type \in {"high_frequency", "multilayer"} THEN <<"FCC">> ELSE <<>>)

\* Lines 56-65 with the FCC rule placed before the UL rule.
predicted_certs_fcc_first(features) ==
    <<"CE">>
    \o (IF features.estimated_layer_count > 1 THEN <<"RoHS">> ELSE <<>>)
    \o (IF features.pcb_type \in {"high_frequency", "multilayer"} THEN <<"FCC">> ELSE <<>>)
    \o (IF features.component_density \in {"medium", "high"} THEN <<"UL">> ELSE <<>>)

\* Lines 56-65: the predicted certifications, in append order.
predicted_certs_of(features) ==
    <<"CE">>
    \o (IF features.estimated_layer_count > 1 THEN <<"RoHS">> ELSE <<>>)
    \o (IF features.component_density \in {"medium", "high"} THEN <<"UL">> ELSE <<>>)
    \o (IF features.pcb_type \in {"high_frequency", "multilayer"} THEN <<"FCC">> ELSE <<>>)

\* Line 67: "; ".join([f"{cert} (simulated)" for cert in predicted_certs]).
cert_result_of(predicted_certs) ==
    Join("; ", [i \in DOMAIN predicted_certs |-> Simulated(predicted_certs[i])])

\* ---------------------------------------------------------------- report assembler
\* Lines 160-222.
get_quality_check_details(quality_level, features) ==
    LET pcb_type == features.pcb_type
        issues == features.issues
        base_checks ==
            <<Lit("Visual inspection for obvious defects"),
              Lit("Dimensional verification"),
              Lit("Solder joint inspection")>>
        additional_checks ==
            IF quality_level = "basic"
            THEN <<Lit("Basic continuity testing"), Lit("Simple functional testing")>>
            ELSE IF quality_level = "enhanced"
            THEN <<Lit("Automated Optical Inspection (AOI)"),
                   Lit("Complete continuity and isolation testing"),
                   Lit("Functional testing with basic parameters")>>
            ELSE IF quality_level = "comprehensive"
            THEN <<Lit("Automated Optical Inspection (AOI)"),
                   Lit("Automated X-ray Inspection (AXI)"),
                   Lit("In-Circuit Testing (ICT)"),
                   Lit("Flying Probe Testing"),
                   Lit("Functional testing with extended parameters"),
                   Lit("Thermal stress testing")>>
            ELSE <<>>
        type_specific_checks ==
            IF pcb_type = "multilayer"
            THEN <<Lit("Layer-to-layer registration verification"),
                   Lit("Buried/blind via inspection")>>
            ELSE IF pcb_type = "flexible" \/ pcb_type = "rigid_flex"
            THEN <<Lit("Flexibility and bend testing"), Lit("Delamination inspection")>>
            ELSE IF pcb_type = "high_frequency"
            THEN <<Lit("Impedance testing"), Lit("Signal integrity verification")>>
            ELSE IF pcb_type = "high_power"
            THEN <<Lit("Copper thickness verification"),
                   Lit("Thermal performance testing")>>
            ELSE <<>>
        reported == SelectSeq(issues, LAMBDA issue : issue # "none detected")
        issue_specific_checks ==
            [i \in DOMAIN reported |-> <<"Detailed inspection for ", reported[i]>>]
    IN base_checks \o additional_checks \o type_specific_checks \o issue_specific_checks

\* Lines 229-267: the entry written for one certification code.
cert_info(cert) ==
    CASE cert = "CE" ->
           [description |-> Lit("European Conformity - Required for products sold in EU"),
            requirements |-> <<Lit("EMC Directive compliance"), Lit("RoHS compliance"),
                               Lit("Safety testing"), Lit("Technical documentation")>>]
      [] cert = "RoHS" ->
           [description |-> Lit("Restriction of Hazardous Substances - Environmental standard"),
            requirements |-> <<Lit("No lead, mercury, cadmium, hexavalent chromium, PBBs, PBDEs"),
                               Lit("Test reports for materials"),
                               Lit("Declaration of Conformity")>>]
      [] cert = "UL" ->
           [description |-> Lit("Underwriters Laboratories - Safety standard"),
            requirements |-> <<Lit("Safety testing"), Lit("Flammability testing"),
                               Lit("Regular factory audits"), Lit("UL mark application")>>]
      [] cert = "FCC" ->
           [description |-> Lit("Federal Communications Commission - US EMC standard"),
            requirements |-> <<Lit("EMI/EMC testing"),
                               Lit("Radiated and conducted emissions testing"),
                               Lit("Technical documentation"),
                               Lit("FCC Declaration of Conformity or Certification")>>]

\* The codes the if/elif chain of lines 229-267 has a branch for, less FCC.
described_certs_no_fcc == {"CE", "RoHS", "UL"}

\* The codes the if/elif chain of lines 229-267 has a branch for.
described_certs == {"CE", "RoHS", "UL", "FCC"}

\* Lines 224-269: one dict entry per known code, in order of first occurrence.
RECURSIVE cert_details_loop(_, _)
cert_details_loop(cert_details, certifications) ==
    IF certifications = <<>> THEN cert_details
    ELSE LET cert == Head(certifications)
         IN cert_details_loop(
                IF cert \in described_certs
                THEN DictSet(cert_details, cert, cert_info(cert))
                ELSE cert_details,
                Tail(certifications))

get_certification_details(certifications, features) ==
    cert_details_loop(EmptyDict, certifications)

\* Lines 299-304: the lines printed for the certification entries (the bullet
\* glyph of line 300 is written "* ").
RECURSIVE cert_lines(_)
cert_lines(entries) ==
    IF entries = <<>> THEN <<>>
    ELSE LET cert == Head(entries).key
             info == Head(entries).value
         IN << <<"* ", cert, ": ">> \o info.description, Lit("  Requirements:") >>
            \o [i \in DOMAIN info.requirements |-> <<"  - ">> \o info.requirements[i]]
            \o <<Lit("")>>
            \o cert_lines(Tail(entries))

\* Lines 271-308.  The text is the lines joined by "\n"; an empty string is
\* the token "".
format_details(results, features, analysis_option) ==
    LET profile ==
            <<<<"PCB Type: ", Upper[features.pcb_type]>>,
              <<"Component Density: ", Capitalize[features.component_density]>>,
              <<"Estimated Layer Count: ", ToString(features.estimated_layer_count)>>,
              IF features.issues # <<>> /\ features.issues[1] # "none detected"
              THEN <<"Detected Issues: ">> \o Join(", ", [i \in DOMAIN features.issues |-> Lit(features.issues[i])])
              ELSE Lit("Detected Issues: None"),
              Lit("\n")>>
        quality ==
            IF analysis_option \in {1, 2} /\ "quality_details" \in KeySet(results)
            THEN LET checks == DictGet(results, "quality_details")
                 IN <<Lit("RECOMMENDED QUALITY CHECKS:")>>
                    \o [i \in DOMAIN checks |-> <<ToString(i), ". ">> \o checks[i]]
                    \o <<Lit("\n")>>
            ELSE <<>>
        certification ==
            IF analysis_option \in {1, 3} /\ "certification_details" \in KeySet(results)
            THEN IF DictGet(results, "certification_details") # EmptyDict
                 THEN <<Lit("CERTIFICATION REQUIREMENTS:")>>
                      \o cert_lines(DictGet(results, "certification_details"))
                 ELSE <<Lit("CERTIFICATION REQUIREMENTS: None specifically detected")>>
            ELSE <<>>
    IN Join("\n", profile \o quality \o certification)

\* Lines 80-84 with the certification key left out.
error_result_no_cert(e) ==
    DictSet(DictSet(EmptyDict,
        "quality_check_required", Lit("Error")),
        "details", <<"An error occurred during image processing: ", e>>)

\* Lines 80-84: the mapping returned by the except clause.
error_result(e) ==
    DictSet(DictSet(DictSet(EmptyDict,
        "quality_check_required", Lit("Error")),
        "certification_needed", Lit("Error")),
        "details", <<"An error occurred during image processing: ", e>>)

\* ---------------------------------------------------------------- analyze_image
VARIABLES
    pc,               \* position in analyze_image
    image,            \* what image_bytes decodes to
    analysis_option,  \* the caller's option
    features,         \* the feature record (line 33)
    results,          \* the dict under construction (line 35)
    exc,              \* the exception in flight
    returned          \* the mapping handed back to the caller

vars == <<pc, image, analysis_option, features, results, exc, returned>>

\* The exception classes `except Exception` (line 79) catches, of those the
\* pipeline raises.
ExceptionClasses == {"UnidentifiedImageError", "OSError", "TypeError", "ValueError"}

Init ==
    /\ pc = "idle"
    /\ image = NoImage
    /\ analysis_option = 0
    /\ features = NoFeatures
    /\ results = EmptyDict
    /\ exc = NoException
    /\ returned = EmptyDict

\* The caller invokes analyze_image(image_bytes, analysis_option).
Call ==
    /\ pc = "idle"
    /\ \E img \in Images, opt \in Options :
        /\ image' = img
        /\ analysis_option' = opt
    /\ pc' = "open"
    /\ UNCHANGED <<features, results, exc, returned>>

\* Line 30: Image.open(io.BytesIO(image_bytes)).
OpenImage ==
    /\ pc = "open"
    /\ IF image.decode = "bad"
       THEN /\ exc' = exception_of("UnidentifiedImageError", "cannot identify image file")
            /\ pc' = "except"
       ELSE /\ exc' = exc
            /\ pc' = "detect"
    /\ UNCHANGED <<image, analysis_option, features, results, returned>>

\* Lines 33-35: features = self.detect_pcb_features(image); results = {}.
DetectFeatures ==
    /\ pc = "detect"
    /\ LET r == detect_pcb_features(image)
       IN IF r.ok
          THEN /\ features' = r.value
               /\ results' = EmptyDict
               /\ exc' = exc
               /\ pc' = "quality"
          ELSE /\ exc' = r.exc
               /\ pc' = "except"
               /\ UNCHANGED <<features, results>>
    /\ UNCHANGED <<image, analysis_option, returned>>

\* Lines 38-51: the quality section.
QualityCheck ==
    /\ pc = "quality"
    /\ IF analysis_option \in {1, 2}
       THEN LET quality_result == quality_result_of(features)
            IN results' =
                 DictSet(DictSet(results,
                    "quality_check_required", Simulated(quality_result)),
                    "quality_details", get_quality_check_details(quality_result, features))
       ELSE results' = results
    /\ pc' = "certification"
    /\ UNCHANGED <<image, analysis_option, features, exc, returned>>

\* Line 54 with option 2 admitted.
cert_requested_always(option) == option \in {1, 2, 3}

\* Line 54: analysis_option in [1, 3].
cert_requested(option) == option \in {1, 3}

\* Lines 54-72: the certification section.
Certification ==
    /\ pc = "certification"
    /\ IF cert_requested(analysis_option)
       THEN LET predicted_certs == predicted_certs_of(features)
            IN results' =
                 DictSet(DictSet(results,
                    "certification_needed", cert_result_of(predicted_certs)),
                    "certification_details",
                    get_certification_details(predicted_certs, features))
       ELSE results' = results
    /\ pc' = "format"
    /\ UNCHANGED <<image, analysis_option, features, exc, returned>>

\* Lines 75-77: results["details"] = ...; return results.
FormatAndReturn ==
    /\ pc = "format"
    /\ results' = DictSet(results, "details",
                          format_details(results, features, analysis_option))
    /\ returned' = results'
    /\ pc' = "done"
    /\ UNCHANGED <<image, analysis_option, features, exc>>

\* Lines 79-84: except Exception as e: return {...}.
Except ==
    /\ pc = "except"
    /\ IF exc.type \in ExceptionClasses
       THEN /\ returned' = error_result(exc.msg)
            /\ pc' = "done"
       ELSE /\ returned' = returned
            /\ pc' = "propagated"
    /\ UNCHANGED <<image, analysis_option, features, results, exc>>

\* The call is over; nothing of it is kept (no state across calls).
Finish ==
    /\ pc = "done"
    /\ pc' = "idle"
    /\ image' = NoImage
    /\ analysis_option' = 0
    /\ features' = NoFeatures
    /\ results' = EmptyDict
    /\ exc' = NoException
    /\ returned' = EmptyDict

Next ==
    \/ Call
    \/ OpenImage
    \/ DetectFeatures
    \/ QualityCheck
    \/ Certification
    \/ FormatAndReturn
    \/ Except
    \/ Finish

Spec == Init /\ [][Next]_vars

\* ---------------------------------------------------------------- properties
\* The call returned normally / through the except clause.
Succeeded == pc = "done" /\ exc = NoException

Failed == pc = "done" /\ exc # NoException

\* The certification vocabulary (line 15) and the codes a text names, in order.
cert_classes == {"CE", "RoHS", "UL", "FCC", "ISO9001", "IEC60950", "IATF16949"}

codes_in(text) == SelectSeq(text, LAMBDA t : t \in cert_classes)

NeededCodes == codes_in(DictGet(returned, "certification_needed"))

DetailCodes == DictKeys(DictGet(returned, "certification_details"))

SeqSet(q) == {q[i] : i \in DOMAIN q}

NoDuplicates(q) == \A i, j \in DOMAIN q : i # j => q[i] # q[j]

\* Position of a code in the lexicographic order of the code strings.
LexRank ==
    [c \in cert_classes |->
        CASE c = "CE" -> 1 [] c = "FCC" -> 2 [] c = "IATF16949" -> 3
          [] c = "IEC60950" -> 4 [] c = "ISO9001" -> 5 [] c = "RoHS" -> 6
          [] c = "UL" -> 7]

\* Position of a code in the order the rules of lines 56-65 append them.
RuleRank ==
    [c \in {"CE", "RoHS", "UL", "FCC"} |->
        CASE c = "CE" -> 1 [] c = "RoHS" -> 2 [] c = "UL" -> 3 [] c = "FCC" -> 4]

Increasing(q, rank) == \A i, j \in DOMAIN q : i < j => rank[q[i]] < rank[q[j]]

\* The quality tier named by quality_check_required.
ReportedTier == DictGet(returned, "quality_check_required")[1]

ErrorKeys == {"quality_check_required", "certification_needed", "details"}

\* The mapping of lines 80-84: three keys, "Error" twice, a non-empty text.
IsErrorShape(r) ==
    /\ KeySet(r) = ErrorKeys
    /\ Len(r) = 3
    /\ DictGet(r, "quality_check_required") = <<"Error">>
    /\ DictGet(r, "certification_needed") = <<"Error">>
    /\ \E i \in DOMAIN DictGet(r, "details") : DictGet(r, "details")[i] # ""

\* The keys an option entails.
EntailedKeys(option) ==
    {"details"}
    \cup (IF option \in {1, 2} THEN {"quality_check_required", "quality_details"} ELSE {})
    \cup (IF option \in {1, 3} THEN {"certification_needed", "certification_details"} ELSE {})

TableTier(f) ==
    IF f.pcb_type \in {"multilayer", "high_frequency", "high_power", "rigid_flex"}
       \/ f.component_density \in {"high", "very_high"}
    THEN "comprehensive"
    ELSE IF f.pcb_type \in {"double_sided", "flexible"} \/ f.component_density = "medium"
    THEN "enhanced"
    ELSE "basic"

\* C2 as stated: with option 1 or 2 the reported quality tier follows the
\* membership table, and a multilayer board is always comprehensive.
C2_TierFollowsTable ==
    (Succeeded /\ analysis_option \in {1, 2}) =>
        /\ ReportedTier = TableTier(features)
        /\ features.pcb_type = "multilayer" => ReportedTier = "comprehensive"

\* C3 as stated: a decodable single-channel image never raises; its pcb_type
\* is the density-only one and the result is not the error shape.
C3_GrayscaleNeverRaises ==
    (pc = "done" /\ image.decode = "ok" /\ image.ndim = 2) =>
        /\ exc = NoException
        /\ ~IsErrorShape(returned)
        /\ features.pcb_type =
             (IF image.edge < 10 * EdgeScale THEN "single_sided" ELSE "double_sided")

\* C4: with option 1, 2 or 3 and no error, the returned keys are exactly the
\* ones the option entails: quality keys iff option is 1 or 2, certification
\* keys iff option is 1 or 3, details always.
C4_SectionsMatchOption ==
    (Succeeded /\ analysis_option \in {1, 2, 3}) =>
        /\ KeySet(returned) = EntailedKeys(analysis_option)
        /\ Len(returned) = Cardinality(EntailedKeys(analysis_option))

C4_Witness ==
    /\ Succeeded
    /\ analysis_option = 2
    /\ KeySet(returned) = {"quality_check_required", "quality_details", "details"}

\* C5: a failure while decoding or computing features never leaves
\* analyze_image; the call returns the three-key error shape ("Error" twice,
\* non-empty details), and a returned mapping is either that shape or the
\* complete set of requested sections, never a mixture.
C5_FailuresBecomeErrorShape ==
    /\ pc # "propagated"
    /\ Failed => IsErrorShape(returned)
    /\ pc = "done" =>
         \/ IsErrorShape(returned)
         \/ /\ exc = NoException
            /\ KeySet(returned) = EntailedKeys(analysis_option)
            /\ \A k \in KeySet(returned) \cap {"quality_check_required", "certification_needed"} :
                  DictGet(returned, k) # <<"Error">>

C5_Witness ==
    /\ Failed
    /\ exc.type = "UnidentifiedImageError"
    /\ analysis_option = 2
    /\ IsErrorShape(returned)

DensityRank ==
    [d \in {"low", "medium", "high", "very_high"} |->
        CASE d = "low" -> 1 [] d = "medium" -> 2 [] d = "high" -> 3
          [] d = "very_high" -> 4]

\* C7: component_density is a total, monotonic step function of edge density:
\* the density computed for the image is one of the four labels, no smaller
\* edge density has a higher label and no larger one a lower label.
C7_DensityMonotonic ==
    (pc \in {"quality", "certification", "format", "done"} /\ exc = NoException) =>
        /\ features.component_density \in DOMAIN DensityRank
        /\ \A a \in Edges :
             /\ component_density_of(a) \in DOMAIN DensityRank
             /\ a < image.edge =>
                  DensityRank[component_density_of(a)]
                      <= DensityRank[features.component_density]
             /\ a > image.edge =>
                  DensityRank[component_density_of(a)]
                      >= DensityRank[features.component_density]

C7_Witness ==
    /\ pc = "quality"
    /\ image.edge = 15 * EdgeScale
    /\ features.component_density = "high"

\* A three-channel image with equal channel means and edge density 0.
UniformGray ==
    /\ image.decode = "ok"
    /\ image.ndim = 3
    /\ Len(image.mean) = 3
    /\ image.mean[1] = image.mean[2] /\ image.mean[2] = image.mean[3]
    /\ image.edge = 0

C9_OtherOptionOnlyDetails ==
    (pc = "done" /\ image.decode = "ok" /\ analysis_option \notin {1, 2, 3}) =>
        /\ exc = NoException
        /\ KeySet(returned) = {"details"}
        /\ LET text == DictGet(returned, "details")
           IN /\ {"PCB Type: ", "Component Density: ", "Estimated Layer Count: "}
                   \subseteq SeqSet(text)
              /\ "RECOMMENDED QUALITY CHECKS:" \notin SeqSet(text)
              /\ "CERTIFICATION REQUIREMENTS:" \notin SeqSet(text)
              /\ "CERTIFICATION REQUIREMENTS: None specifically detected"
                   \notin SeqSet(text)

\* C10: with option 1 or 3 and no error, the keys of certification_details
\* are exactly the codes named in certification_needed.
C10_DetailsMatchNeeded ==
    (Succeeded /\ analysis_option \in {1, 3}) =>
        SeqSet(DetailCodes) = SeqSet(NeededCodes)

C10_Witness ==
    /\ Succeeded
    /\ analysis_option = 3
    /\ SeqSet(NeededCodes) = {"CE", "RoHS", "FCC"}
    /\ SeqSet(DetailCodes) = {"CE", "RoHS", "FCC"}

====
